---------------------------- MODULE Spec2Model ----------------------------
(***************************************************************************)
(* Canvas Bombardment (src/src/pages/Index.tsx, final iteration): the      *)
(* simulation and state engine of the page as a state machine.             *)
(*                                                                         *)
(* Time is the value of performance.now() relative to startTime, in ms.    *)
(* Positions are kept on a grid of 1/PX pixel, so that 0.12*dt and 0.08*dt *)
(* are exact for every dt that is a multiple of 5 ms; the 3% easing of the *)
(* bomber is rounded down to that grid.  An explosion's radius r is kept   *)
(* in units of 1/RU pixel, in which maxR*(0.2 + 0.8*t) is exact.           *)
(* A setTimeout callback runs when the clock reaches its deadline: the     *)
(* clock never passes the deadline of a pending timer.                     *)
(***************************************************************************)
EXTENDS Integers, Sequences, FiniteSets, TLC

(* ------------------------------ bounds --------------------------------- *)
Width == 1920          \* window.innerWidth  (px)
Height == 400          \* window.innerHeight (px)
MaxClicks == 2         \* activation events per session
MaxMoves == 1          \* pointer-move events per session
MaxInputMoves == 3     \* pointer-move events per session, input surface alone
MaxInputFrames == 1    \* animation frames per session, input surface alone
MaxFrames == 5         \* animation frames per session
MaxWrapFrames == 2     \* animation frames, Runner near the right edge
MaxAimMoves == 2       \* pointer-move events, Missile and exhaust alone
MaxExhaustFrames == 3  \* animation frames, Missile and exhaust alone
SessionLife == 800     \* maxLife (ms) of a Particle in the session at large

(* --------------------------- model units ------------------------------- *)
PX == 5                \* position units per pixel
RU == 75               \* radius units per pixel

(* ------------------------- program constants --------------------------- *)
quakeDuration == 2200
ReloadExtra == 300
SettleDelay == 240
RespawnDelay == 1200
SpawnAfter == 30000
ExplosionMaxR == 140
ExplosionLifeMs == 1200
BomberHitRadius == 40
BoyHitRadius == 28
BoyW == 28
BoyH == 46
BomberW == 110
BuildingMinCols == 6
BuildingColWidth == 120
PulseMs == 400
PopupLifeMs == 900
PopupRise == 20

VARIABLES
  now,               \* performance.now() - startTime
  running,           \* let running
  reloaded,          \* window.location.reload() has been called
  raf,               \* a requestAnimationFrame callback is pending
  frames,            \* number of frames run so far
  lastTime,          \* let lastTime
  firstClickHandled, \* let firstClickHandled
  mouse,             \* const mouse: Vec
  missile,           \* missile.pos
  particles,         \* const particles: Particle[] (life, maxLife)
  stopTimer,         \* let stopTimer: id of the last settle timer, 0 = null
  timers,            \* pending setTimeout callbacks: [id, kind, at]
  nextTimer,         \* id the next setTimeout returns
  explosions,        \* const explosions: Explosion[]
  nextId,            \* identity of the next Explosion object
  boy,               \* const boy: Actor
  bomber,            \* const bomber: Actor
  score,             \* let score
  scorePulse,        \* let scorePulse, in 1/PulseMs
  popups,            \* const popups: Popup[]
  quakeActive,       \* let quakeActive
  quakeStart,        \* let quakeStart
  buildings,         \* const buildings: Building[]
  reloadQueued,      \* let reloadQueued
  clicks,            \* activation events so far
  moves,             \* pointer-move events so far
  hist               \* history of the session (observation only)

vars == <<now, running, reloaded, raf, frames, lastTime, firstClickHandled,
          mouse, missile, particles, stopTimer, timers, nextTimer, explosions, nextId,
          boy, bomber, score, scorePulse, popups, quakeActive, quakeStart,
          buildings, reloadQueued, clicks, moves, hist>>

(* ------------------------------ helpers -------------------------------- *)
Min(a, b) == IF a <= b THEN a ELSE b
Max(a, b) == IF a >= b THEN a ELSE b
clamp(v, a, b) == Max(a, Min(b, v))
Abs(a) == IF a >= 0 THEN a ELSE -a

\* const groundY = () => Math.min(height - 40, height * 0.9), on the grid
groundY == Min((Height - 40) * PX, (Height * 9 * PX) \div 10)

\* points the pointer can be at (grid units), inside the viewport
PointerPoints ==
  { [x |-> 0, y |-> groundY - 30 * PX],      \* at the left edge, near the ground
    [x |-> 0, y |-> groundY - 190 * PX] }    \* at the left edge, at flight level

\* the instants (ms) at which frames are run and input events delivered:
\* the start, the 30 s mark, the first instant after it, and instants some
\* 15 s later, when the boy has crossed the viewport
Instants ==
  {SpawnAfter} \cup
  {SpawnAfter + d : d \in {200, 15200, 16200, 16400, 16600, 17400, 18400, 18600}}

\* the instants at which the player clicks or moves the pointer when the
\* input surface is checked alone: three 200 ms apart, one 800 ms later
DebounceInstants ==
  {SpawnAfter + d : d \in {16200, 16400, 16600, 17400}}

\* Runner positions near the right edge: px past the viewport width
WrapOffsets == {39, 40, 41, 42, 54, 55}

\* frame deltas (ms) of the frames run with the Runner near the right edge
WrapDts == {5, 15, 105, 110, 115, 200}

\* values of maxLife = 600 + Math.random() * 400 a Particle can draw (ms)
ParticleLives == {600, 999}

\* points the pointer is moved to when the Missile is what is checked: the
\* top edge above the Missile's start, and the point 15% of the way from the
\* top edge to that start
AimPoints ==
  { [x |-> (Width * PX) \div 2, y |-> 0],
    [x |-> (Width * PX) \div 2, y |-> (Height * PX * 85) \div 200] }

\* the instants of the clicks and pointer moves then
AimInstants == {SpawnAfter, SpawnAfter + 200}

\* the instants at which the player clicks or moves the pointer
InputInstants ==
  {SpawnAfter + d : d \in {15200, 16400, 17400}}


(* --------------------------- session state ----------------------------- *)
\* The closure state of the effect, as one record the handlers transform.
St ==
  [now |-> now, running |-> running, reloaded |-> reloaded, raf |-> raf,
   frames |-> frames, lastTime |-> lastTime,
   firstClickHandled |-> firstClickHandled, mouse |-> mouse,
   missile |-> missile, particles |-> particles, scorePulse |-> scorePulse, popups |-> popups,
   stopTimer |-> stopTimer, timers |-> timers, nextTimer |-> nextTimer,
   explosions |-> explosions, nextId |-> nextId, boy |-> boy,
   bomber |-> bomber, score |-> score, quakeActive |-> quakeActive,
   quakeStart |-> quakeStart, buildings |-> buildings,
   reloadQueued |-> reloadQueued, clicks |-> clicks, moves |-> moves,
   hist |-> hist]

Commit(s) ==
  /\ now' = s.now
  /\ running' = s.running
  /\ reloaded' = s.reloaded
  /\ raf' = s.raf
  /\ frames' = s.frames
  /\ lastTime' = s.lastTime
  /\ firstClickHandled' = s.firstClickHandled
  /\ mouse' = s.mouse
  /\ missile' = s.missile
  /\ particles' = s.particles
  /\ stopTimer' = s.stopTimer
  /\ timers' = s.timers
  /\ nextTimer' = s.nextTimer
  /\ explosions' = s.explosions
  /\ nextId' = s.nextId
  /\ boy' = s.boy
  /\ bomber' = s.bomber
  /\ score' = s.score
  /\ scorePulse' = s.scorePulse
  /\ popups' = s.popups
  /\ quakeActive' = s.quakeActive
  /\ quakeStart' = s.quakeStart
  /\ buildings' = s.buildings
  /\ reloadQueued' = s.reloadQueued
  /\ clicks' = s.clicks
  /\ moves' = s.moves
  /\ hist' = s.hist

NoTime == -1

Init ==
  /\ now = 0
  /\ running = TRUE
  /\ reloaded = FALSE
  /\ raf = TRUE
  /\ frames = 0
  /\ lastTime = 0
  /\ firstClickHandled = FALSE
  /\ mouse = [x |-> (Width * PX) \div 2, y |-> (Height * PX) \div 2]
  /\ missile = [x |-> (Width * PX) \div 2, y |-> (Height * PX) \div 2]
  /\ particles = << >>
  /\ stopTimer = 0
  /\ timers = {}
  /\ nextTimer = 1
  /\ explosions = << >>
  /\ nextId = 1
  /\ boy = [x |-> -80 * PX, y |-> groundY - 40 * PX, w |-> BoyW * PX,
            h |-> BoyH * PX, alive |-> FALSE]
  /\ bomber = [x |-> -200 * PX, y |-> groundY - 200 * PX, w |-> BomberW * PX,
               alive |-> FALSE]
  /\ score = 0
  /\ scorePulse = 0
  /\ popups = << >>
  /\ quakeActive = FALSE
  /\ quakeStart = 0
  /\ buildings = << >>
  /\ reloadQueued = FALSE
  /\ clicks = 0
  /\ moves = 0
  /\ hist = [scored |-> << >>,           \* ids of the Explosions that scored, in order
             quakes |-> 0,               \* calls of triggerEarthquake
             crashAt |-> NoTime,         \* time of the first call of triggerEarthquake
             reloadTimers |-> 0,         \* reload timers ever created
             reloadCalls |-> 0,          \* calls of window.location.reload
             bomberKilledAt |-> NoTime,  \* time of the latest bomber destruction
             timerRevivals |-> 0,        \* respawn callbacks that revived a dead bomber
             firstClickAt |-> NoTime,    \* time of the first activation
             lastMoveAt |-> NoTime,      \* time of the latest pointer-move
             prevMoveAt |-> NoTime,      \* time of the pointer-move before it
             stoppedAt |-> NoTime,       \* time of the teardown
             tests |-> {},               \* circleHit calls of the latest frame
             drawn |-> {},               \* Explosions drawn by the latest frame
             order |-> << >>,            \* parts of the latest frame, in order
             pushed |-> 0,               \* Particles pushed by the latest frame
             dir |-> [x |-> 0, y |-> 0], \* dir of the latest drawMissile
             angle |-> [x |-> 0, y |-> 0], \* its angle; (0, 0) = none yet
             validAngle |-> [x |-> 0, y |-> 0], \* latest angle of a dir # 0
             drawChanged |-> {}]         \* what the latest draw calls changed

(* ------------------------------ timers --------------------------------- *)
\* window.setTimeout(callback, delay): the callback is named by its kind
setTimeout(s, kind, delay) ==
  [s EXCEPT !.timers = @ \cup {[id |-> s.nextTimer, kind |-> kind,
                                at |-> s.now + delay]},
            !.nextTimer = @ + 1]

\* window.clearTimeout(id): no effect when the timer has fired already
clearTimeout(s, id) ==
  [s EXCEPT !.timers = {t \in @ : t.id # id}]

(* ------------------------------ input ---------------------------------- *)
\* spawnExplosion(x, y); src records which call site created the Explosion
spawnExplosion(s, x, y, src) ==
  [s EXCEPT !.explosions =
              Append(@, [id |-> s.nextId, x |-> x, y |-> y, r |-> 0,
                         maxR |-> ExplosionMaxR, alive |-> TRUE,
                         createdAt |-> s.now, lifeMs |-> ExplosionLifeMs,
                         hitBomber |-> FALSE, hitBoy |-> FALSE, src |-> src]),
            !.nextId = @ + 1]

\* ClearStopTimer that leaves the pending timer armed
ClearStopTimerSkipped(s) == s

\* onMouseMove: if (stopTimer) clearTimeout(stopTimer)
ClearStopTimer(s) ==
  IF s.stopTimer # 0 THEN clearTimeout(s, s.stopTimer) ELSE s

\* ArmStopTimer without the firstClickHandled test
ArmStopTimerAlways(s) ==
  [setTimeout(s, "settle", SettleDelay) EXCEPT !.stopTimer = s.nextTimer]

\* onMouseMove: if (firstClickHandled) stopTimer = setTimeout(..., 240)
ArmStopTimer(s) ==
  IF s.firstClickHandled
    THEN [setTimeout(s, "settle", SettleDelay) EXCEPT !.stopTimer = s.nextTimer]
    ELSE s

onMouseMove(s, p) ==
  LET s1 == [s EXCEPT !.mouse = p,
                      !.moves = @ + 1,
                      !.hist.lastMoveAt = s.now,
                      !.hist.prevMoveAt = s.hist.lastMoveAt]
  IN ArmStopTimer(ClearStopTimer(s1))

\* onClick that detonates at the last pointer-move position
onClickAtPointer(s, p) ==
  LET s1 == [s EXCEPT !.firstClickHandled = TRUE,
                      !.clicks = @ + 1,
                      !.hist.firstClickAt =
                         IF s.firstClickHandled THEN @ ELSE s.now]
  IN spawnExplosion(s1, s.mouse.x, s.mouse.y, "click")

\* onClick that leaves firstClickHandled as it is
onClickWithoutActivation(s, p) ==
  LET s1 == [s EXCEPT !.clicks = @ + 1,
                      !.hist.firstClickAt =
                         IF s.firstClickHandled THEN @ ELSE s.now]
  IN spawnExplosion(s1, p.x, p.y, "click")

\* onClick that arms the missile-follow loop from the second click on
onClickActivatingLate(s, p) ==
  LET s1 == [s EXCEPT !.firstClickHandled = s.clicks > 0,
                      !.clicks = @ + 1,
                      !.hist.firstClickAt =
                         IF s.firstClickHandled THEN @ ELSE s.now]
  IN spawnExplosion(s1, p.x, p.y, "click")

onClick(s, p) ==
  LET s1 == [s EXCEPT !.firstClickHandled = TRUE,
                      !.clicks = @ + 1,
                      !.hist.firstClickAt =
                         IF s.firstClickHandled THEN @ ELSE s.now]
  IN spawnExplosion(s1, p.x, p.y, "click")

\* the callback of the settle timer
SettleCallback(s) == spawnExplosion(s, s.mouse.x, s.mouse.y, "settle")

(* ------------------------------ update --------------------------------- *)
\* const spawnBomber
spawnBomber(s) ==
  [s EXCEPT !.bomber.alive = TRUE,
            !.bomber.x = -200 * PX,
            !.bomber.y = groundY - 200 * PX]

\* RespawnCallback without the running test
RespawnCallbackUnguarded(s) ==
  [spawnBomber(s) EXCEPT !.hist.timerRevivals =
                            IF s.bomber.alive THEN @ ELSE @ + 1]

\* the callback of the respawn timer: if (running) spawnBomber()
RespawnCallback(s) ==
  IF s.running
    THEN [spawnBomber(s) EXCEPT !.hist.timerRevivals =
                                   IF s.bomber.alive THEN @ ELSE @ + 1]
    ELSE s

\* the callback of the reload timer: window.location.reload()
ReloadCallback(s) ==
  [s EXCEPT !.reloaded = TRUE, !.hist.reloadCalls = @ + 1]

\* QueueReload without the one-shot flag test
QueueReloadUnguarded(s) ==
  [setTimeout(s, "reload", quakeDuration + ReloadExtra)
     EXCEPT !.reloadQueued = TRUE, !.hist.reloadTimers = @ + 1]

\* QueueReload with a delay that leaves out the quake duration
QueueReloadEarly(s) ==
  IF ~s.reloadQueued
    THEN [setTimeout(s, "reload", ReloadExtra)
            EXCEPT !.reloadQueued = TRUE, !.hist.reloadTimers = @ + 1]
    ELSE s

\* triggerEarthquake: if (!reloadQueued) { reloadQueued = true; setTimeout(...) }
QueueReload(s) ==
  IF ~s.reloadQueued
    THEN [setTimeout(s, "reload", quakeDuration + ReloadExtra)
            EXCEPT !.reloadQueued = TRUE, !.hist.reloadTimers = @ + 1]
    ELSE s

\* triggerEarthquake: const cols = Math.max(6, Math.ceil(width / 120))
cols == Max(BuildingMinCols,
            (Width + BuildingColWidth - 1) \div BuildingColWidth)

\* const triggerEarthquake; buildings.length = 0, then cols new objects. A
\* Building is kept as its identity (id: the objects of the n-th call are
\* numbered after those of the calls before) and the time its physics has
\* been integrated over (t); its geometry and velocities are not kept
triggerEarthquake(s) ==
  QueueReload(
    [s EXCEPT !.quakeActive = TRUE,
              !.quakeStart = s.now,
              !.buildings = [i \in 1..cols |->
                               [id |-> s.hist.quakes * cols + i, t |-> 0]],
              !.hist.quakes = @ + 1,
              !.hist.crashAt = IF s.quakeActive THEN @ ELSE s.now])

\* MissileFollow without the firstClickHandled test
MissileFollowAlways(s) ==
  [s EXCEPT !.missile.x = @ + ((s.mouse.x - @) * 15) \div 100,
            !.missile.y = @ + ((s.mouse.y - @) * 15) \div 100]

\* update: missile follow (15% of the way to the pointer per frame), rounded
\* down to the position grid
MissileFollow(s) ==
  IF s.firstClickHandled
    THEN [s EXCEPT !.missile.x = @ + ((s.mouse.x - @) * 15) \div 100,
                   !.missile.y = @ + ((s.mouse.y - @) * 15) \div 100]
    ELSE s

\* SpawnActors that spawns at the 30 s mark already (>= for >)
SpawnActorsAtThreshold(s) ==
  IF s.now >= SpawnAfter
    THEN LET s1 == IF ~s.boy.alive
                     THEN [s EXCEPT !.boy.alive = TRUE,
                                    !.boy.x = -80 * PX,
                                    !.boy.y = groundY - 8 * PX]
                     ELSE s
         IN IF ~s1.bomber.alive THEN spawnBomber(s1) ELSE s1
    ELSE s

\* update: spawn boy & bomber after 30s
SpawnActors(s) ==
  IF s.now > SpawnAfter
    THEN LET s1 == IF ~s.boy.alive
                     THEN [s EXCEPT !.boy.alive = TRUE,
                                    !.boy.x = -80 * PX,
                                    !.boy.y = groundY - 8 * PX]
                     ELSE s
         IN IF ~s1.bomber.alive THEN spawnBomber(s1) ELSE s1
    ELSE s

\* update: move boy (0.12 px per ms, wraps past the right edge)
MoveBoy(s, dt) ==
  IF s.boy.alive
    THEN LET x == s.boy.x + (12 * PX * dt) \div 100
         IN [s EXCEPT !.boy.x = IF x - s.boy.w \div 2 > (Width + 40) * PX
                                  THEN -80 * PX ELSE x]
    ELSE s

\* update: bomber behavior (pursuit of the boy, else cruise at 0.08 px per ms)
MoveBomber(s, dt) ==
  IF s.bomber.alive /\ s.boy.alive
    THEN LET targetX == s.boy.x - 160 * PX
             targetY == s.boy.y - 180 * PX
         IN [s EXCEPT !.bomber.x = @ + ((targetX - @) * 3) \div 100,
                      !.bomber.y = @ + ((targetY - @) * 3) \div 100]
    ELSE IF s.bomber.alive
      THEN LET x == s.bomber.x + (8 * PX * dt) \div 100
           IN [s EXCEPT !.bomber.x = IF x - s.bomber.w \div 2 > (Width + 60) * PX
                                       THEN -120 * PX ELSE x]
      ELSE s

\* DecayFeedback whose pulse decay has no floor at 0
DecayFeedbackUnclamped(s, dt) ==
  LET aged == [i \in 1..Len(s.popups) |->
                 [s.popups[i] EXCEPT !.life = @ + dt,
                                     !.y = @ - (35 * PX * dt) \div 1000]]
  IN [s EXCEPT !.scorePulse = @ - dt,
               !.popups = SelectSeq(aged, LAMBDA p : p.life < p.maxLife)]

\* update: score pulse decay and popup updates (a popup rises 0.035 px per ms)
DecayFeedback(s, dt) ==
  LET aged == [i \in 1..Len(s.popups) |->
                 [s.popups[i] EXCEPT !.life = @ + dt,
                                     !.y = @ - (35 * PX * dt) \div 1000]]
  IN [s EXCEPT !.scorePulse = Max(0, @ - dt),
               !.popups = SelectSeq(aged, LAMBDA p : p.life < p.maxLife)]

\* const circleHit: dist <= ex.r + radius, with ex.r in 1/RU px, the centre
\* on the position grid and radius in px; both sides scaled by RU
circleHit(ex, cx, cy, radius) ==
  LET dx == Abs(ex.x - cx)
      dy == Abs(ex.y - cy)
      k == RU \div PX
      reach == ex.r + RU * radius
  IN /\ k * dx <= reach
     /\ k * dy <= reach
     /\ k * k * (dx * dx + dy * dy) <= reach * reach

\* the history notes a call of circleHit for the Explosion at index i
NoteTest(s, i, target, hit) ==
  LET ex == s.explosions[i]
  IN [s EXCEPT !.hist.tests =
                  @ \cup {[id |-> ex.id, src |-> ex.src, target |-> target,
                           r |-> ex.r, elapsed |-> s.now - ex.createdAt,
                           hit |-> hit]}]

\* DestroyBomber without the score pulse and the popup
DestroyBomberWithoutFeedback(s, i) ==
  LET s1 == [s EXCEPT !.explosions[i].hitBomber = TRUE,
                      !.score = @ + 1,
                      !.hist.scored = Append(@, s.explosions[i].id),
                      !.hist.bomberKilledAt = s.now]
      s2 == spawnExplosion(s1, s.bomber.x, s.bomber.y, "secondary")
      s3 == [s2 EXCEPT !.bomber.alive = FALSE]
  IN setTimeout(s3, "respawn", RespawnDelay)

\* DestroyBomber that scores once for each Explosion overlapping the Bomber
DestroyBomberScoringEach(s, i) ==
  LET over == {j \in 1..Len(s.explosions) :
                 /\ s.explosions[j].alive
                 /\ ~s.explosions[j].hitBomber
                 /\ circleHit(s.explosions[j], s.bomber.x, s.bomber.y,
                              BomberHitRadius)}
      s1 == [s EXCEPT !.explosions[i].hitBomber = TRUE,
                      !.score = @ + Cardinality(over),
                      !.scorePulse = PulseMs,
                      !.popups = Append(@, [x |-> s.bomber.x,
                                            y |-> s.bomber.y - PopupRise * PX,
                                            text |-> "+1", life |-> 0,
                                            maxLife |-> PopupLifeMs]),
                      !.hist.scored = Append(@, s.explosions[i].id),
                      !.hist.bomberKilledAt = s.now]
      s2 == spawnExplosion(s1, s.bomber.x, s.bomber.y, "secondary")
      s3 == [s2 EXCEPT !.bomber.alive = FALSE]
  IN setTimeout(s3, "respawn", RespawnDelay)

\* collisions: the body of the Bomber destruction branch
DestroyBomber(s, i) ==
  LET s1 == [s EXCEPT !.explosions[i].hitBomber = TRUE,
                      !.score = @ + 1,
                      !.scorePulse = PulseMs,
                      !.popups = Append(@, [x |-> s.bomber.x,
                                            y |-> s.bomber.y - PopupRise * PX,
                                            text |-> "+1", life |-> 0,
                                            maxLife |-> PopupLifeMs]),
                      !.hist.scored = Append(@, s.explosions[i].id),
                      !.hist.bomberKilledAt = s.now]
      s2 == spawnExplosion(s1, s.bomber.x, s.bomber.y, "secondary")
      s3 == [s2 EXCEPT !.bomber.alive = FALSE]
  IN setTimeout(s3, "respawn", RespawnDelay)

\* HitBomber without the per-explosion flag test
HitBomberIgnoringFlag(s, i) ==
  IF s.bomber.alive
     /\ circleHit(s.explosions[i], s.bomber.x, s.bomber.y, BomberHitRadius)
    THEN DestroyBomber(s, i)
    ELSE s

\* collisions: Bomber destruction, for the Explosion at index i
HitBomber(s, i) ==
  LET ex == s.explosions[i]
      tested == s.bomber.alive /\ ~ex.hitBomber
      hit == tested /\ circleHit(ex, s.bomber.x, s.bomber.y, BomberHitRadius)
      s1 == IF tested THEN NoteTest(s, i, "bomber", hit) ELSE s
  IN IF hit THEN DestroyBomber(s1, i) ELSE s1

\* collisions: Boy hit -> earthquake crash, for the Explosion at index i
HitBoy(s, i) ==
  LET ex == s.explosions[i]
      tested == s.boy.alive /\ ~ex.hitBoy
      hit == tested
             /\ circleHit(ex, s.boy.x, s.boy.y - s.boy.h \div 2, BoyHitRadius)
      s1 == IF tested THEN NoteTest(s, i, "boy", hit) ELSE s
  IN IF hit
       THEN triggerEarthquake([s1 EXCEPT !.explosions[i].hitBoy = TRUE,
                                         !.boy.alive = FALSE])
       ELSE s1

\* collisions: for (const ex of explosions), from index i on; an Explosion
\* pushed during the pass is visited by the same pass
RECURSIVE Collisions(_, _)
Collisions(s, i) ==
  IF i > Len(s.explosions)
    THEN s
    ELSE IF ~s.explosions[i].alive
      THEN Collisions(s, i + 1)
      ELSE Collisions(HitBoy(HitBomber(s, i), i), i + 1)

\* the history notes that a part of the frame has run
NotePart(s, part) == [s EXCEPT !.hist.order = Append(@, part)]

\* Integrate that also unsets the hit flags of every Explosion
IntegrateClearingFlags(s, dt) ==
  LET s1 == DecayFeedback(MoveBomber(MoveBoy(SpawnActors(MissileFollow(s)),
                                             dt), dt), dt)
  IN [s1 EXCEPT !.explosions =
        [i \in 1..Len(@) |-> [@[i] EXCEPT !.hitBomber = FALSE,
                                          !.hitBoy = FALSE]]]

\* update: everything before the collisions
Integrate(s, dt) ==
  DecayFeedback(MoveBomber(MoveBoy(SpawnActors(MissileFollow(s)), dt), dt), dt)

\* const update
update(s, dt) ==
  NotePart(Collisions(NotePart(Integrate(s, dt), "integrate"), 1), "collide")

(* ------------------------------- loop ---------------------------------- *)
\* GrownRadius that starts at maxR and decays to 0.2 * maxR
GrownRadiusShrinking(ex, t) ==
  LET elapsed == t - ex.createdAt
  IN (ex.maxR * RU * (10 * ex.lifeMs - 8 * clamp(elapsed, 0, ex.lifeMs)))
       \div (10 * ex.lifeMs)

\* drawNuclearExplosion: ex.r = ex.maxR * (0.2 + 0.8 * t), in 1/RU px
GrownRadius(ex, t) ==
  LET elapsed == t - ex.createdAt
  IN (ex.maxR * RU * (2 * ex.lifeMs + 8 * clamp(elapsed, 0, ex.lifeMs)))
       \div (10 * ex.lifeMs)

\* loop: for (const ex of explosions) if (ex.alive) drawNuclearExplosion(ex)
DrawExplosions(s) ==
  LET exs == s.explosions
  IN [s EXCEPT !.explosions =
        [i \in 1..Len(exs) |->
           IF exs[i].alive
             THEN [exs[i] EXCEPT !.r = GrownRadius(exs[i], s.now)]
             ELSE exs[i]],
               !.hist.drawn =
        {[id |-> exs[i].id, elapsed |-> s.now - exs[i].createdAt] :
           i \in {j \in 1..Len(exs) : exs[j].alive}},
               !.hist.order = Append(@, "render")]

\* the greatest common divisor of two naturals
RECURSIVE GCD(_, _)
GCD(a, b) == IF b = 0 THEN a ELSE GCD(b, a % b)

\* Math.atan2(dy, dx): the angle is kept as the shortest integer vector of
\* that direction; Math.atan2(0, 0) is 0, the angle of the positive x axis
atan2(dy, dx) ==
  IF dx = 0 /\ dy = 0
    THEN [x |-> 1, y |-> 0]
    ELSE LET g == GCD(Abs(dx), Abs(dy))
         IN [x |-> dx \div g, y |-> dy \div g]

\* drawMissile without the firstClickHandled test
drawMissileAlways(s, lives) ==
  LET dir == [x |-> s.mouse.x - s.missile.x,
              y |-> s.mouse.y - s.missile.y]
  IN [s EXCEPT !.particles =
                 @ \o <<[life |-> 0, maxLife |-> lives[1]],
                         [life |-> 0, maxLife |-> lives[2]]>>,
               !.hist.pushed = 2,
               !.hist.dir = dir,
               !.hist.angle = atan2(dir.y, dir.x),
               !.hist.validAngle =
                  IF dir.x = 0 /\ dir.y = 0
                    THEN @ ELSE atan2(dir.y, dir.x)]

\* drawMissile: the exhaust; lives gives the maxLife the two Particles draw
\* from Math.random (position and velocity of a Particle are not kept)
drawMissile(s, lives) ==
  IF ~s.firstClickHandled
    THEN s
    ELSE LET dir == [x |-> s.mouse.x - s.missile.x,
                     y |-> s.mouse.y - s.missile.y]
         IN [s EXCEPT !.particles =
                        @ \o <<[life |-> 0, maxLife |-> lives[1]],
                                [life |-> 0, maxLife |-> lives[2]]>>,
                      !.hist.pushed = 2,
                      !.hist.dir = dir,
                      !.hist.angle = atan2(dir.y, dir.x),
                      !.hist.validAngle =
                         IF dir.x = 0 /\ dir.y = 0
                           THEN @ ELSE atan2(dir.y, dir.x)]

\* drawParticles(dt): every Particle ages by dt and is removed at maxLife
drawParticles(s, dt) ==
  LET aged == [i \in 1..Len(s.particles) |->
                 [s.particles[i] EXCEPT !.life = @ + dt]]
  IN [s EXCEPT !.particles = SelectSeq(aged, LAMBDA q : q.life < q.maxLife)]

\* Expired that already holds at the end of the lifetime
ExpiredAtLifetime(ex, t) == t - ex.createdAt >= ex.lifeMs

\* CleanupExplosions that removes nothing
CleanupExplosionsKeepingAll(s) ==
  [s EXCEPT !.hist.order = Append(@, "cleanup")]

\* loop: cleanup explosions by life
Expired(ex, t) == t - ex.createdAt > ex.lifeMs

CleanupExplosions(s) ==
  [s EXCEPT !.explosions = SelectSeq(@, LAMBDA ex : ~Expired(ex, s.now)),
            !.hist.order = Append(@, "cleanup")]

\* drawEarthquake(dt): the physics of every Building advances by dt; no
\* Building is added or removed
drawEarthquake(s, dt) ==
  [s EXCEPT !.buildings = [i \in 1..Len(@) |-> [@[i] EXCEPT !.t = @ + dt]]]

\* loop: if (quakeActive) drawEarthquake(dt), after the cleanup
QuakeFrame(s, dt) == IF s.quakeActive THEN drawEarthquake(s, dt) ELSE s

\* the parts of the entity state in which s and d differ
Changed(s, d) ==
  {c \in {"missile", "boy", "bomber", "explosions", "particles", "popups",
          "score", "scorePulse", "quakeActive", "buildings"} :
     \/ c = "missile" /\ d.missile # s.missile
     \/ c = "boy" /\ d.boy # s.boy
     \/ c = "bomber" /\ d.bomber # s.bomber
     \/ c = "explosions" /\ d.explosions # s.explosions
     \/ c = "particles" /\ d.particles # s.particles
     \/ c = "popups" /\ d.popups # s.popups
     \/ c = "score" /\ d.score # s.score
     \/ c = "scorePulse" /\ d.scorePulse # s.scorePulse
     \/ c = "quakeActive" /\ d.quakeActive # s.quakeActive
     \/ c = "buildings" /\ d.buildings # s.buildings}

\* loop: the draw calls that assign to the session state, in draw order;
\* the history notes which parts of the entity state they changed
Draw(s, dt, lives) ==
  LET d == drawParticles(drawMissile(DrawExplosions(s), lives), dt)
  IN [d EXCEPT !.hist.drawChanged = Changed(s, d)]

\* const loop, called with time = now
loop(s, lives) ==
  IF ~s.running
    THEN [s EXCEPT !.raf = FALSE]
    ELSE LET dt == IF s.frames = 0 THEN 0 ELSE s.now - s.lastTime
             s1 == [s EXCEPT !.lastTime = s.now, !.frames = @ + 1,
                             !.hist.tests = {}, !.hist.drawn = {},
                             !.hist.order = << >>, !.hist.pushed = 0,
                             !.hist.drawChanged = {}]
         IN [QuakeFrame(CleanupExplosions(Draw(update(s1, dt), dt, lives)),
                        dt)
               EXCEPT !.raf = TRUE]

\* stop that flips the running flag instead of clearing it
stopToggling(s) ==
  LET s1 == [s EXCEPT !.running = ~s.running,
                      !.raf = FALSE,
                      !.hist.stoppedAt = IF s.running THEN s.now ELSE @]
  IN ClearStopTimer(s1)

\* the cleanup function the effect returns
stop(s) ==
  LET s1 == [s EXCEPT !.running = FALSE,
                      !.raf = FALSE,
                      !.hist.stoppedAt = IF s.running THEN s.now ELSE @]
  IN ClearStopTimer(s1)

(* ------------------------------ actions -------------------------------- *)
Live == ~reloaded

\* the listeners are attached from construction to the teardown
Listening == running

\* a requestAnimationFrame callback, with time = now; the two Particles of
\* the frame draw their maxLife from L
FrameUpTo(limit, L) ==
  /\ Live /\ raf
  /\ frames < limit /\ now \in Instants
  /\ (frames = 0 \/ now > lastTime)
  /\ \E lives \in L \X L : Commit(loop(St, lives))

Frame == FrameUpTo(MaxFrames, {SessionLife})

\* a pointermove / mousemove / touchmove event, at one of the instants in I
MoveAt(I, limit) ==
  /\ Live /\ Listening
  /\ moves < limit /\ now \in I
  /\ \E p \in PointerPoints : Commit(onMouseMove(St, p))

\* a click / touchstart event, at one of the instants in I
ClickAt(I) ==
  /\ Live /\ Listening
  /\ clicks < MaxClicks /\ now \in I
  /\ \E p \in PointerPoints : Commit(onClick(St, p))

PointerMove == MoveAt(InputInstants, MaxMoves)

Click == ClickAt(InputInstants)

Due == {t \in timers : t.at <= now}

FireSettle ==
  /\ Live
  /\ \E t \in Due : /\ t.kind = "settle"
                    /\ Commit(SettleCallback([St EXCEPT !.timers = @ \ {t}]))

FireRespawn ==
  /\ Live
  /\ \E t \in Due : /\ t.kind = "respawn"
                    /\ Commit(RespawnCallback([St EXCEPT !.timers = @ \ {t}]))

FireReload ==
  /\ Live
  /\ \E t \in Due : /\ t.kind = "reload"
                    /\ Commit(ReloadCallback([St EXCEPT !.timers = @ \ {t}]))

\* the teardown; it may be called again on a stopped session
Stop ==
  /\ Live
  /\ Commit(stop(St))

\* the clock advances to the next instant, not past a pending deadline
Tick ==
  /\ Live
  /\ \E d \in Instants : /\ d > now
                         /\ \A e \in Instants : e > now => d <= e
                         /\ \A t \in timers : d <= t.at
                         /\ Commit([St EXCEPT !.now = d])

\* the clock advances to the earliest pending deadline
TickToTimer ==
  /\ Live
  /\ timers # {}
  /\ \E t \in timers : /\ \A u \in timers : t.at <= u.at
                       /\ now < t.at
                       /\ Commit([St EXCEPT !.now = t.at])

Next ==
  \/ Frame
  \/ PointerMove
  \/ Click
  \/ FireSettle
  \/ FireRespawn
  \/ FireReload
  \/ Stop
  \/ Tick
  \/ TickToTimer

Spec == Init /\ [][Next]_vars

\* the input surface and its debounce timer, with few frames in between
InputMove == MoveAt(DebounceInstants, MaxInputMoves)

InputClick == ClickAt(DebounceInstants)

InputFrame == FrameUpTo(MaxInputFrames, {SessionLife})

InputNext ==
  \/ InputMove
  \/ InputClick
  \/ InputFrame
  \/ FireSettle
  \/ Stop
  \/ Tick
  \/ TickToTimer

InputSpec == Init /\ [][InputNext]_vars

\* The Runner near the right edge: a session some time after the 30 s mark,
\* never activated, the Runner alive at one of the positions of WrapOffsets
\* and the Bomber in pursuit behind it; frames follow at deltas of WrapDts.
WrapInit ==
  /\ now = SpawnAfter + 15200
  /\ running = TRUE
  /\ reloaded = FALSE
  /\ raf = TRUE
  /\ frames = 1
  /\ lastTime = now
  /\ firstClickHandled = FALSE
  /\ mouse = [x |-> (Width * PX) \div 2, y |-> (Height * PX) \div 2]
  /\ missile = [x |-> (Width * PX) \div 2, y |-> (Height * PX) \div 2]
  /\ particles = << >>
  /\ stopTimer = 0
  /\ timers = {}
  /\ nextTimer = 1
  /\ explosions = << >>
  /\ nextId = 1
  /\ \E k \in WrapOffsets :
       /\ boy = [x |-> (Width + k) * PX, y |-> groundY - 8 * PX,
                 w |-> BoyW * PX, h |-> BoyH * PX, alive |-> TRUE]
       /\ bomber = [x |-> (Width + k - 160) * PX, y |-> groundY - 188 * PX,
                    w |-> BomberW * PX, alive |-> TRUE]
  /\ score = 0
  /\ scorePulse = 0
  /\ popups = << >>
  /\ quakeActive = FALSE
  /\ quakeStart = 0
  /\ buildings = << >>
  /\ reloadQueued = FALSE
  /\ clicks = 0
  /\ moves = 0
  /\ hist = [scored |-> << >>, quakes |-> 0, crashAt |-> NoTime,
             reloadTimers |-> 0, reloadCalls |-> 0, bomberKilledAt |-> NoTime,
             timerRevivals |-> 0, firstClickAt |-> NoTime,
             lastMoveAt |-> NoTime, prevMoveAt |-> NoTime,
             stoppedAt |-> NoTime, tests |-> {}, drawn |-> {},
             order |-> <<"integrate", "collide", "render", "cleanup">>,
             pushed |-> 0, dir |-> [x |-> 0, y |-> 0],
             angle |-> [x |-> 0, y |-> 0],
             validAngle |-> [x |-> 0, y |-> 0], drawChanged |-> {}]

\* a requestAnimationFrame callback, dt after the previous one
WrapFrame ==
  /\ Live /\ raf
  /\ frames < 1 + MaxWrapFrames
  /\ \E dt \in WrapDts :
       Commit(loop([St EXCEPT !.now = now + dt], <<SessionLife, SessionLife>>))

WrapNext == WrapFrame

WrapSpec == WrapInit /\ [][WrapNext]_vars

\* The Missile and its exhaust: the pointer moves between the points of
\* AimPoints, the Particles draw their maxLife from ParticleLives.
AimMove ==
  /\ Live /\ Listening
  /\ moves < MaxAimMoves /\ now \in AimInstants
  /\ \E p \in AimPoints : Commit(onMouseMove(St, p))

AimClick == ClickAt(AimInstants)

ExhaustFrame == FrameUpTo(MaxExhaustFrames, ParticleLives)

ExhaustNext ==
  \/ AimMove
  \/ AimClick
  \/ ExhaustFrame
  \/ FireSettle
  \/ Tick
  \/ TickToTimer

ExhaustSpec == Init /\ [][ExhaustNext]_vars

\* the session while the pointer rests: activations, frames and timers
LiveNext ==
  \/ Frame
  \/ Click
  \/ FireRespawn
  \/ FireReload
  \/ Stop
  \/ Tick
  \/ TickToTimer

\* the event loop runs a due callback, and the clock does not stop
LiveSpec ==
  /\ Init /\ [][LiveNext]_vars
  /\ WF_vars(FireRespawn)
  /\ WF_vars(FireReload)
  /\ WF_vars(TickToTimer)

\* a call of loop is pending at this instant (the guard of Frame)
FrameDue ==
  /\ Live /\ raf
  /\ frames < MaxFrames /\ now \in Instants
  /\ (frames = 0 \/ now > lastTime)

\* requestAnimationFrame calls loop when it is pending (weak fairness of
\* Frame, with the guard written out), the clock does not stop and the event
\* loop runs a due callback
StepSpec ==
  /\ Init /\ [][LiveNext]_vars
  /\ ([]<>(~FrameDue) \/ []<><<frames' # frames \/ raf' # raf>>_vars)
  /\ WF_vars(Tick)
  /\ WF_vars(TickToTimer)
  /\ WF_vars(FireRespawn)
  /\ WF_vars(FireReload)

(* ------------- the intermediate iteration (unnamed/part_001) ----------- *)
\* Input handlers, spawnExplosion, circleHit, the draw calls and the cleanup
\* of the intermediate iteration are line for line those of the final one.
\* Its update has no score pulse, no popups and no earthquake: a glitch
\* (glitchActive, glitchStart, kept in quakeActive, quakeStart) precedes the
\* reload. Its Explosions have no hit flags; the flags of the record stay
\* unset.
glitchDuration == 800

\* collisions: if (bomber.alive && circleHit(ex, bomber.x, bomber.y, 40))
\* { score += 1; } -- the bomber stays alive and the Explosion is not marked
MidHitBomber(s, i) ==
  IF s.bomber.alive
     /\ circleHit(s.explosions[i], s.bomber.x, s.bomber.y, BomberHitRadius)
    THEN [s EXCEPT !.score = @ + 1,
                   !.hist.scored = Append(@, s.explosions[i].id)]
    ELSE s

\* collisions: the boy is hit; the glitch starts and the reload is queued once
MidHitBoy(s, i) ==
  IF s.boy.alive
     /\ circleHit(s.explosions[i], s.boy.x, s.boy.y - s.boy.h \div 2,
                  BoyHitRadius)
    THEN LET s1 == [s EXCEPT !.boy.alive = FALSE,
                             !.quakeActive = TRUE,
                             !.quakeStart = s.now,
                             !.hist.crashAt = IF s.quakeActive THEN @ ELSE s.now]
         IN IF ~s1.reloadQueued
              THEN [setTimeout(s1, "reload", glitchDuration + ReloadExtra)
                      EXCEPT !.reloadQueued = TRUE, !.hist.reloadTimers = @ + 1]
              ELSE s1
    ELSE s

\* collisions: for (const ex of explosions), from index i on
RECURSIVE MidCollisions(_, _)
MidCollisions(s, i) ==
  IF i > Len(s.explosions)
    THEN s
    ELSE IF ~s.explosions[i].alive
      THEN MidCollisions(s, i + 1)
      ELSE MidCollisions(MidHitBoy(MidHitBomber(s, i), i), i + 1)

\* const update of the intermediate iteration
MidUpdate(s, dt) ==
  MidCollisions(MoveBomber(MoveBoy(SpawnActors(MissileFollow(s)), dt), dt), 1)

\* const loop of the intermediate iteration
MidLoop(s, lives) ==
  IF ~s.running
    THEN [s EXCEPT !.raf = FALSE]
    ELSE LET dt == IF s.frames = 0 THEN 0 ELSE s.now - s.lastTime
             s1 == [s EXCEPT !.lastTime = s.now, !.frames = @ + 1,
                             !.hist.tests = {}, !.hist.drawn = {},
                             !.hist.order = << >>, !.hist.pushed = 0,
                             !.hist.drawChanged = {}]
         IN [CleanupExplosions(Draw(MidUpdate(s1, dt), dt, lives))
               EXCEPT !.raf = TRUE]

MidFrame ==
  /\ Live /\ raf
  /\ frames < MaxFrames /\ now \in Instants
  /\ (frames = 0 \/ now > lastTime)
  /\ Commit(MidLoop(St, <<SessionLife, SessionLife>>))

MidNext ==
  \/ MidFrame
  \/ Click
  \/ FireReload
  \/ Stop
  \/ Tick
  \/ TickToTimer

MidSpec == Init /\ [][MidNext]_vars

(* ------------------- the session without an end of frames ------------- *)
\* For a session whose frames never end the state is kept finite by looking
\* at it from its latest instant. The program reads the clock only in
\* differences (now - createdAt, time - lastTime, timer delays) and in the
\* test t > 30000, which stays true once it is true; it never reads an id
\* or the value of a counter. So after the last of Instants the clock is
\* held there and every stored time is moved back instead (Shift), ids are
\* renumbered and the counters that only grow are kept up to a ceiling
\* (Rebase).
LastInstant == CHOOSE d \in Instants : \A e \in Instants : e <= d

\* the interval of the frames after LastInstant (ms)
ChainDt == RespawnDelay \div 6

\* the ceiling of the counters, and the earliest time that is kept apart
ChainCap == Cardinality(Instants)
ChainFloor == SpawnAfter

\* a stored time, dt later
Past(x, dt) == IF x <= ChainFloor THEN x ELSE Max(x - dt, ChainFloor)

\* the session dt later, seen from the same reading of the clock
Shift(s, dt) ==
  [s EXCEPT
     !.lastTime = Past(@, dt),
     !.quakeStart = Past(@, dt),
     !.explosions = [i \in 1..Len(@) |->
                       [@[i] EXCEPT !.createdAt = Past(@, dt)]],
     !.timers = {[u EXCEPT !.at = @ - dt] : u \in @},
     !.hist.crashAt = Past(@, dt),
     !.hist.bomberKilledAt = Past(@, dt),
     !.hist.firstClickAt = Past(@, dt),
     !.hist.lastMoveAt = Past(@, dt),
     !.hist.prevMoveAt = Past(@, dt),
     !.hist.stoppedAt = Past(@, dt)]

\* the index in s.explosions of the Explosion with this id, 0 if it is gone
NewId(s, id) ==
  IF \E i \in 1..Len(s.explosions) : s.explosions[i].id = id
    THEN CHOOSE i \in 1..Len(s.explosions) : s.explosions[i].id = id
    ELSE 0

\* the place of timer u among the pending timers, by deadline
TimerRank(s, u) ==
  1 + Cardinality({v \in s.timers :
                     v.at < u.at \/ (v.at = u.at /\ v.id < u.id)})

\* ids renumbered from 1, growing counters kept up to ChainCap
Rebase(s) ==
  [s EXCEPT
     !.explosions = [i \in 1..Len(@) |-> [@[i] EXCEPT !.id = i]],
     !.nextId = Len(s.explosions) + 1,
     !.timers = {[u EXCEPT !.id = TimerRank(s, u)] : u \in @},
     !.nextTimer = Cardinality(s.timers) + 1,
     !.frames = Min(@, ChainCap),
     !.score = Min(@, ChainCap),
     !.hist.scored =
        LET live == SelectSeq(@, LAMBDA id : NewId(s, id) # 0)
        IN [k \in 1..Len(live) |-> NewId(s, live[k])],
     !.hist.tests = {[c EXCEPT !.id = NewId(s, c.id)] : c \in @},
     !.hist.drawn = {[c EXCEPT !.id = NewId(s, c.id)] : c \in @},
     !.hist.quakes = Min(@, ChainCap),
     !.hist.timerRevivals = Min(@, ChainCap)]

\* requestAnimationFrame(loop), with no end of frames
ChainFrame ==
  /\ Live /\ raf
  /\ now \in Instants
  /\ (frames = 0 \/ now > lastTime)
  /\ Commit(Rebase(loop(St, <<SessionLife, SessionLife>>)))

\* up to LastInstant the clock advances to the earliest pending deadline
ChainTickToTimer ==
  /\ \E u \in timers : u.at <= LastInstant
  /\ TickToTimer

\* after LastInstant the clock advances from frame to frame, by ChainDt or
\* up to the earliest pending deadline if that is nearer
ChainTickDue ==
  /\ Live
  /\ now = LastInstant /\ lastTime = now
  /\ Due = {}

ChainTick ==
  /\ ChainTickDue
  /\ LET near == {u.at - now : u \in timers} \cap (1..ChainDt)
         d == IF near = {}
                THEN ChainDt
                ELSE CHOOSE a \in near : \A b \in near : a <= b
     IN Commit(Shift(St, d))

\* the session with activations among InputInstants, no pointer-move, no
\* teardown and no end of frames
ChainNext ==
  \/ ChainFrame
  \/ Click
  \/ FireRespawn
  \/ FireReload
  \/ Tick
  \/ ChainTickToTimer
  \/ ChainTick

\* a call of loop is pending at this instant (the guard of ChainFrame)
ChainFrameDue ==
  /\ Live /\ raf
  /\ now \in Instants
  /\ (frames = 0 \/ now > lastTime)

\* frames keep running, the clock does not stop (weak fairness of ChainFrame
\* and of ChainTick, with their guards written out) and the event loop runs
\* a due callback
ChainSpec ==
  /\ Init /\ [][ChainNext]_vars
  /\ ([]<>(~ChainFrameDue) \/ []<><<lastTime' = now' /\ lastTime # now>>_vars)
  /\ ([]<>(~ChainTickDue) \/ []<><<lastTime' < lastTime>>_vars)
  /\ WF_vars(Tick)
  /\ WF_vars(ChainTickToTimer)
  /\ WF_vars(FireRespawn)
  /\ WF_vars(FireReload)

(* ------------------------------ claims --------------------------------- *)
Indices(seq) == 1..Len(seq)

NoDuplicates(seq) ==
  \A i, j \in Indices(seq) : i # j => seq[i] # seq[j]

SettleTimers == {t \in timers : t.kind = "settle"}
RespawnTimers == {t \in timers : t.kind = "respawn"}
ReloadTimers == {t \in timers : t.kind = "reload"}

SettleExplosions == {i \in Indices(explosions) : explosions[i].src = "settle"}

\* C1: score never decreases, every change is an increment of exactly 1, and
\* no Explosion scores more than once, however long it overlaps the Flyer.
C1_ScoreByOneOncePerExplosion ==
  [][/\ score' = score \/ score' = score + 1
     /\ score' = Len(hist'.scored)
     /\ NoDuplicates(hist'.scored)]_vars

\* an Explosion that has scored overlaps the live Flyer again, score unchanged
C1_Witness ==
  /\ score = 1
  /\ bomber.alive
  /\ \E i \in Indices(explosions) :
       /\ explosions[i].hitBomber
       /\ circleHit(explosions[i], bomber.x, bomber.y, BomberHitRadius)

\* C2: at most one reload timer is ever created and the restart callback is
\* invoked at most once, however many times the Runner is hit.
C2_ReloadScheduledOnce ==
  /\ hist.reloadTimers <= 1
  /\ hist.reloadCalls <= 1
  /\ Cardinality(ReloadTimers) <= 1

\* the Runner has been hit twice and one reload timer was created
C2_Witness ==
  /\ hist.quakes >= 2
  /\ hist.reloadTimers = 1

\* C3: once Crashing, no later step re-triggers the crash sequence: the crash
\* start time is never reset and the Debris set is never re-created.
C3_CrashEnteredOnce ==
  [][quakeActive => /\ quakeStart' = quakeStart
                    /\ hist'.quakes = hist.quakes]_vars

\* C4: once an Explosion has hit the Runner, the Runner is not alive in any
\* later state.
C4_RunnerHitTerminal == quakeActive => ~boy.alive

\* C5: after a Runner hit, unless the session is stopped, the restart callback
\* eventually fires; it fires once, not before crashDuration + 300 ms have
\* elapsed since the hit that entered Crashing.
C5_ReloadFiresOnceAfterDelay ==
  /\ quakeActive ~> (reloaded \/ ~running)
  /\ [](reloaded => /\ hist.reloadCalls = 1
                    /\ hist.crashAt # NoTime
                    /\ now >= hist.crashAt + quakeDuration + ReloadExtra)

\* the restart callback has fired in a session that was never stopped
C5_Witness ==
  /\ reloaded
  /\ running
  /\ hist.quakes >= 1

\* C6: after stop() no deferred callback has any effect: no Explosion is
\* spawned, the Flyer is not revived, the restart callback is not invoked and
\* no step runs.
C6_NothingAfterStop ==
  [][~running => /\ explosions' = explosions
                 /\ bomber' = bomber
                 /\ reloaded' = reloaded
                 /\ frames' = frames]_vars

\* C7: a Flyer destroyed at time T is not alive in any state before
\* T + respawnDelay.
C7_RespawnNotEarlier ==
  (bomber.alive /\ hist.bomberKilledAt # NoTime)
    => now >= hist.bomberKilledAt + RespawnDelay

\* a step outside the animation frame (a timer callback) revives the Flyer
RevivedByTimer == frames' = frames /\ ~bomber.alive /\ bomber'.alive

\* C8 (as stated): the respawn timer revives the Flyer only in the Active
\* phase, never after Crashing has begun.
C8_RevivedOnlyWhenActive ==
  [][RevivedByTimer => ~quakeActive]_vars

\* C8 (amended): the respawn timer revives the Flyer only while the session
\* has not been stopped.
C8_RevivedOnlyWhenRunning ==
  [][RevivedByTimer => running]_vars

\* the respawn timer of a destroyed Flyer has fired after stop(): still dead
C8_Witness ==
  /\ ~running
  /\ ~bomber.alive
  /\ hist.bomberKilledAt # NoTime
  /\ now >= hist.bomberKilledAt + RespawnDelay
  /\ RespawnTimers = {}

\* a settle Explosion is pushed by this step
SettleSpawned ==
  /\ Len(explosions') = Len(explosions) + 1
  /\ explosions'[Len(explosions')].src = "settle"

\* C9: at most one settle timer is pending, armed 240 ms after the latest
\* pointer-move; a settle detonation happens only 240 ms after the latest
\* pointer-move, at the pointer position, and disarms the timer.
C9_Debounce ==
  [][/\ Cardinality(SettleTimers') <= 1
     /\ \A t \in SettleTimers' :
          /\ t.id = stopTimer'
          /\ t.at = hist'.lastMoveAt + SettleDelay
     /\ SettleSpawned =>
          /\ firstClickHandled
          /\ now = hist.lastMoveAt + SettleDelay
          /\ explosions'[Len(explosions')].x = mouse.x
          /\ explosions'[Len(explosions')].y = mouse.y
          /\ explosions'[Len(explosions')].createdAt = now
          /\ SettleTimers' = {}]_vars

\* moves less than 240 ms apart gave one detonation, 240 ms after the last
C9_Witness ==
  /\ hist.prevMoveAt # NoTime
  /\ hist.firstClickAt # NoTime
  /\ hist.firstClickAt <= hist.prevMoveAt
  /\ hist.lastMoveAt - hist.prevMoveAt < SettleDelay
  /\ Cardinality(SettleExplosions) = 1
  /\ \A i \in SettleExplosions :
       explosions[i].createdAt = hist.lastMoveAt + SettleDelay

\* C10: pointer-moves before the first activation arm no timer, and every
\* settle detonation follows a pointer-move made after an activation.
C10_NoSettleBeforeActivation ==
  /\ ~firstClickHandled => (SettleTimers = {} /\ explosions = << >>)
  /\ \A i \in SettleExplosions :
       /\ hist.firstClickAt # NoTime
       /\ explosions[i].createdAt >= hist.firstClickAt + SettleDelay

\* a move, then the first activation, then 240 ms without a detonation
C10_Witness ==
  /\ hist.lastMoveAt # NoTime
  /\ hist.firstClickAt # NoTime
  /\ hist.lastMoveAt < hist.firstClickAt
  /\ now >= hist.firstClickAt + SettleDelay
  /\ SettleExplosions = {}
  /\ SettleTimers = {}

\* the radius drawNuclearExplosion gives an Explosion of the given age
RadiusAtAge(elapsed) ==
  GrownRadius([createdAt |-> 0, maxR |-> ExplosionMaxR,
               lifeMs |-> ExplosionLifeMs], elapsed)

\* C11: the radius every hit test uses is the radius grown for the
\* Explosion's elapsed time at that step, so at least 0.2 * maxRadius, never 0.
C11_HitTestUsesGrownRadius ==
  \A c \in hist.tests :
    /\ c.r = RadiusAtAge(c.elapsed)
    /\ 5 * c.r >= ExplosionMaxR * RU

\* C12: no Explosion whose elapsed time exceeds its lifetime takes part in a
\* hit test, scores against the Flyer or kills the Runner.
C12_NoExpiredInHitTest ==
  \A c \in hist.tests : c.elapsed <= ExplosionLifeMs

\* this step is an animation frame
FrameStep == frames' = frames + 1

\* the Explosion of explosions' that continues the one at index i, if any
SameExplosion(i, j) == explosions'[j].id = explosions[i].id

\* C13: an Explosion's radius never decreases from one step to the next while
\* it is in the live set, and 0 <= radius <= maxRadius in every state.
C13_RadiusMonotoneBounded ==
  /\ [](\A i \in Indices(explosions) :
          /\ 0 <= explosions[i].r
          /\ explosions[i].r <= explosions[i].maxR * RU)
  /\ [][\A i \in Indices(explosions), j \in Indices(explosions') :
          SameExplosion(i, j) => explosions'[j].r >= explosions[i].r]_vars

\* an Explosion has grown past its first radius, another to its full radius
C13_Witness ==
  \E i, j \in Indices(explosions) :
    /\ 5 * explosions[i].r > explosions[i].maxR * RU
    /\ explosions[i].r < explosions[i].maxR * RU
    /\ explosions[j].r = explosions[j].maxR * RU

\* C14: a live Runner at x = viewportWidth + 41 at the start of a step is at
\* the spawn x-coordinate -80 at its end, for every frame delta.
C14_WrapAtWidthPlus41 ==
  [][(FrameStep /\ boy.alive /\ boy.x = (Width + 41) * PX)
       => boy'.x = -80 * PX]_vars

\* the hit tests of this step's collision pass that hit the Flyer
BomberHits == {c \in hist'.tests : c.target = "bomber" /\ c.hit}

\* the Explosions, Popups and respawn timers this step has created
NewExplosions == {j \in Indices(explosions') : explosions'[j].id >= nextId}
NewPopups == {j \in Indices(popups') : popups'[j].life = 0}
NewRespawnTimers == {tm \in RespawnTimers' : tm.id >= nextTimer}

\* C15: the step in which an Explosion hits the live Flyer sets that
\* Explosion's flag, adds 1 to score, sets scorePulse to 1, adds one "+1"
\* Popup above the Flyer and one secondary Explosion at the Flyer's position,
\* leaves the Flyer not alive and schedules exactly one respawn timer; no
\* other step changes the score.
C15_FlyerHitAtomic ==
  [][/\ (score' # score) <=> (FrameStep /\ BomberHits # {})
     /\ (FrameStep /\ BomberHits # {}) =>
          /\ Cardinality(BomberHits) = 1
          /\ \A c \in BomberHits : \A j \in Indices(explosions') :
               explosions'[j].id = c.id => explosions'[j].hitBomber
          /\ score' = score + 1
          /\ scorePulse' = PulseMs
          /\ Cardinality(NewPopups) = 1
          /\ \A j \in NewPopups :
               /\ popups'[j].text = "+1"
               /\ popups'[j].x = bomber'.x
               /\ popups'[j].y = bomber'.y - PopupRise * PX
          /\ Cardinality(NewExplosions) = 1
          /\ \A j \in NewExplosions :
               /\ explosions'[j].src = "secondary"
               /\ explosions'[j].x = bomber'.x
               /\ explosions'[j].y = bomber'.y
          /\ ~bomber'.alive
          /\ Cardinality(NewRespawnTimers) = 1
          /\ \A tm \in NewRespawnTimers : tm.at = now' + RespawnDelay]_vars

\* the state a Flyer hit leaves, the hitting Explosion still in the live set
C15_Witness ==
  /\ score = 1
  /\ scorePulse = PulseMs
  /\ ~bomber.alive
  /\ Len(popups) = 1 /\ popups[1].life = 0
  /\ Cardinality(RespawnTimers) = 1
  /\ \E i, j \in Indices(explosions) :
       /\ explosions[i].hitBomber
       /\ explosions[j].src = "secondary"
       /\ explosions[j].x = bomber.x /\ explosions[j].y = bomber.y

\* C16: every frame runs integration, then collision testing, then the
\* removal of expired entities, then rendering: no Explosion past its
\* lifetime is handed to the renderer.
C16_PhaseOrder ==
  frames > 0 =>
    /\ hist.order = <<"integrate", "collide", "cleanup", "render">>
    /\ \A d \in hist.drawn : d.elapsed <= ExplosionLifeMs

\* C17: a second stop() leaves the session exactly as the first one left it:
\* the state is unchanged, no timer is re-armed and no frame is scheduled.
C17_StopIdempotent ==
  /\ [](stop(stop(St)) = stop(St))
  /\ [](~running => stop(St) = St)
  /\ [][~running => /\ ~running'
                     /\ ~raf'
                     /\ stopTimer' = stopTimer
                     /\ timers' \subseteq timers]_vars

\* a stopped session whose settle timer was cancelled by the first stop()
\* and which still has a pending timer
C17_Witness ==
  /\ ~running
  /\ hist.stoppedAt # NoTime
  /\ stopTimer # 0
  /\ SettleTimers = {}
  /\ timers # {}
  /\ now > hist.stoppedAt

\* where the Missile is constructed: the centre of the viewport
MissileStart == [x |-> (Width * PX) \div 2, y |-> (Height * PX) \div 2]

\* C18: the Missile's active flag is false until the first activation, is set
\* by it and never cleared afterwards, by a crash or a respawn either; while
\* it is false no step moves the Missile.
C18_MissileActiveMonotone ==
  /\ [](firstClickHandled <=> clicks > 0)
  /\ [](~firstClickHandled => missile = MissileStart)
  /\ [][/\ firstClickHandled => firstClickHandled'
        /\ clicks' # clicks => firstClickHandled'
        /\ ~firstClickHandled => missile' = missile]_vars

\* the active Missile has left its start towards the pointer, and the flag
\* is still set after a Flyer respawn and the crash
C18_Witness ==
  /\ firstClickHandled
  /\ missile # MissileStart
  /\ missile # mouse
  /\ quakeActive
  /\ hist.bomberKilledAt # NoTime
  /\ bomber.alive

\* the first frame whose time since the session start exceeds 30 s
FirstSpawnStep ==
  /\ FrameStep
  /\ now > SpawnAfter
  /\ (frames = 0 \/ lastTime <= SpawnAfter)

\* nobody is alive up to the 30 s mark, and afterwards Runner and Flyer are
\* alive together until one of them is hit
SpawnGate ==
  /\ now <= SpawnAfter => (~boy.alive /\ ~bomber.alive)
  /\ (hist.bomberKilledAt = NoTime /\ ~quakeActive)
       => (boy.alive <=> bomber.alive)

\* C19 (as stated): nobody is alive up to the 30 s mark, and the first frame
\* after it leaves Runner and Flyer alive at their fixed spawn positions.
C19_SpawnedAtSpawnPositions ==
  /\ []SpawnGate
  /\ [][FirstSpawnStep =>
          /\ boy'.alive /\ bomber'.alive
          /\ boy'.x = -80 * PX /\ boy'.y = groundY - 8 * PX
          /\ bomber'.x = -200 * PX /\ bomber'.y = groundY - 200 * PX]_vars

\* C19 (amended): nobody is alive up to the 30 s mark; the first frame after
\* it spawns Runner and Flyer together at their fixed positions and moves
\* them in the same frame, the Runner by 0.12 * dt (back to his spawn x when
\* that takes him past the right edge) and the Flyer 3% of the way to its
\* pursuit target; both are alive unless hit in that frame.
C19_SpawnedThenMoved ==
  /\ []SpawnGate
  /\ [][FirstSpawnStep =>
          LET dt == IF frames = 0 THEN 0 ELSE now - lastTime
              mx == -80 * PX + (12 * PX * dt) \div 100
              bx == IF mx - (BoyW * PX) \div 2 > (Width + 40) * PX
                      THEN -80 * PX ELSE mx
              by == groundY - 8 * PX
              fx == -200 * PX
              fy == groundY - 200 * PX
          IN /\ ~boy.alive /\ ~bomber.alive
             /\ boy'.x = bx /\ boy'.y = by
             /\ bomber'.x = fx + ((bx - 160 * PX - fx) * 3) \div 100
             /\ bomber'.y = fy + ((by - 180 * PX - fy) * 3) \div 100
             /\ boy'.alive <=>
                  ~\E c \in hist'.tests : c.target = "boy" /\ c.hit
             /\ bomber'.alive <=>
                  ~\E c \in hist'.tests : c.target = "bomber" /\ c.hit]_vars

\* the second frame of a session never activated was the first after the
\* 30 s mark: both are alive, the Runner past his spawn position
C19_Witness ==
  /\ clicks = 0
  /\ frames = 2
  /\ lastTime = now /\ now > SpawnAfter
  /\ boy.alive /\ bomber.alive
  /\ boy.x > -80 * PX
  /\ boy.x < 0
  /\ bomber.x # -200 * PX

\* the session phase, as the flags of the session give it: 0 Intro (no
\* activation yet), 1 Active, 2 Crashing (quake started), 3 Reload
PhaseOf(clicked, quaking, gone) ==
  IF gone THEN 3 ELSE IF quaking THEN 2 ELSE IF clicked THEN 1 ELSE 0

Phase == PhaseOf(firstClickHandled, quakeActive, reloaded)

\* C20: the phase only moves forward along Intro, Active, Crashing, Reload:
\* Crashing is entered from Active only, never while no activation has
\* occurred, no phase is left backwards and Reload is reached from Crashing.
C20_PhaseForward ==
  /\ [](quakeActive => firstClickHandled)
  /\ [](reloaded => quakeActive)
  /\ [][LET next == PhaseOf(firstClickHandled', quakeActive', reloaded')
        IN /\ next >= Phase
           /\ next = 2 => Phase \in {1, 2}
           /\ next = 3 => Phase \in {2, 3}]_vars

\* the page has reloaded, after an activation and then a crash
C20_Witness ==
  /\ Phase = 3
  /\ hist.firstClickAt # NoTime
  /\ hist.crashAt > hist.firstClickAt
  /\ now > hist.crashAt

\* this step is an activation event
ClickStep == clicks' = clicks + 1

\* C21: every activation, the first and the later ones, appends exactly one
\* Explosion at the activation coordinate, with radius 0, both hit flags
\* unset and createdAt = now, and leaves the existing Explosions as they are.
C21_ClickAddsOneExplosion ==
  [][ClickStep =>
       /\ Len(explosions') = Len(explosions) + 1
       /\ SubSeq(explosions', 1, Len(explosions)) = explosions
       /\ LET e == explosions'[Len(explosions')]
          IN /\ [x |-> e.x, y |-> e.y] \in PointerPoints
             /\ e.r = 0
             /\ ~e.hitBomber /\ ~e.hitBoy
             /\ e.createdAt = now
             /\ e.alive
             /\ e.id = nextId /\ e.src = "click"]_vars

\* the second activation has added its Explosion behind the first one's,
\* which has grown and hit in the meantime
C21_Witness ==
  /\ clicks = 2
  /\ Len(explosions) >= 2
  /\ explosions[1].src = "click" /\ explosions[1].r > 0
  /\ explosions[1].hitBomber
  /\ explosions[Len(explosions)].src = "click"
  /\ explosions[Len(explosions)].r = 0
  /\ explosions[Len(explosions)].createdAt = now

\* C22: the draw calls of a frame change nothing of the entity state
\* (Missile, Runner, Flyer, Explosions and their radius, Particles, Debris,
\* Popups, score, phase).
C22_DrawChangesNothing == hist.drawChanged = {}

\* the Explosions of explosions' that continue none of explosions
Created == {j \in Indices(explosions') :
              \A i \in Indices(explosions) : ~SameExplosion(i, j)}

\* C23: a hit flag of an Explosion that is true stays true for as long as the
\* Explosion is in the live set, and an Explosion that a step has created has
\* both flags false.
C23_HitFlagsMonotone ==
  [][/\ \A i \in Indices(explosions), j \in Indices(explosions') :
          SameExplosion(i, j) =>
            /\ explosions[i].hitBomber => explosions'[j].hitBomber
            /\ explosions[i].hitBoy => explosions'[j].hitBoy
     /\ \A j \in Created :
          ~explosions'[j].hitBomber /\ ~explosions'[j].hitBoy]_vars

\* an Explosion that hit the bomber in an earlier frame is live with its
\* flag, next to an Explosion created at this instant, whose flags are unset
C23_Witness ==
  /\ \E i \in Indices(explosions) :
       explosions[i].hitBomber /\ lastTime > hist.bomberKilledAt
  /\ \E j \in Indices(explosions) :
       /\ explosions[j].createdAt = now /\ explosions[j].r = 0
       /\ ~explosions[j].hitBomber /\ ~explosions[j].hitBoy

C25_SettleAfterClick ==
  \A i \in Indices(explosions) :
    (/\ explosions[i].src = "click"
     /\ hist.lastMoveAt <= explosions[i].createdAt
     /\ now > explosions[i].createdAt + SettleDelay
     /\ hist.stoppedAt = NoTime)
    => \E j \in SettleExplosions :
         /\ explosions[j].createdAt >= explosions[i].createdAt
         /\ explosions[j].createdAt <= explosions[i].createdAt + SettleDelay
         /\ explosions[j].x = mouse.x /\ explosions[j].y = mouse.y

\* C26: an Explosion leaves the live set only in a frame at which its elapsed
\* time exceeds its lifetime; until then it stays, hit or not, with the flags
\* it has.
C26_RemovedOnlyByExpiry ==
  [][\A i \in Indices(explosions) :
       \/ \E j \in Indices(explosions') :
            /\ SameExplosion(i, j)
            /\ explosions[i].hitBomber => explosions'[j].hitBomber
            /\ explosions[i].hitBoy => explosions'[j].hitBoy
       \/ /\ FrameStep
          /\ lastTime' - explosions[i].createdAt > explosions[i].lifeMs]_vars

\* an Explosion that has hit is live after the frame at the very end of its
\* lifetime, with its flag
C26_Witness ==
  \E i \in Indices(explosions) :
    /\ explosions[i].hitBomber \/ explosions[i].hitBoy
    /\ frames > 0
    /\ lastTime - explosions[i].createdAt = explosions[i].lifeMs

\* an Explosion of the live set is past its lifetime at the latest frame
Overdue ==
  \E i \in Indices(explosions) :
    lastTime - explosions[i].createdAt > explosions[i].lifeMs

\* C27: no Explosion is left in the live set by a frame at which its elapsed
\* time exceeds its lifetime, and while frames keep running and time advances
\* every Explosion leaves the live set: in the end the live set is empty, or
\* the session was stopped or reloaded, or the frames ended within the
\* lifetime of the Explosions that are left.
C27_EveryExplosionRemoved ==
  /\ [][FrameStep => ~Overdue']_vars
  /\ <>[](\/ explosions = << >>
          \/ ~running \/ reloaded
          \/ (frames = MaxFrames \/ now >= LastInstant) /\ ~Overdue)

\* an Explosion was removed while frames were still to come
C27_Witness ==
  /\ running /\ ~reloaded
  /\ frames < MaxFrames
  /\ nextId - 1 > Len(explosions)
  /\ Len(explosions) > 0

\* C28: in the intermediate iteration an Explosion that overlaps the live
\* Flyer during several frames is counted once: no Explosion scores twice,
\* and the score is the number of Explosions that scored.
C28_MidScoreOncePerExplosion ==
  /\ NoDuplicates(hist.scored)
  /\ score = Len(hist.scored)

\* the Particles of the live set that a frame of delta dt leaves in it
Surviving(dt) ==
  {i \in Indices(particles) : particles[i].life + dt < particles[i].maxLife}

\* C29: a frame in which the Missile is active adds exactly 2 Particles to
\* the Particle set, a frame in which it is inactive adds none, and no other
\* step adds one. (The frame then ages every Particle by its delta, the new
\* ones included, and removes those at the end of their life, which is at
\* least 600 ms.)
C29_TwoParticlesPerActiveFrame ==
  [][IF FrameStep
       THEN LET dt == IF frames = 0 THEN 0 ELSE now - lastTime
                added == Len(particles') - Cardinality(Surviving(dt))
            IN /\ hist'.pushed = IF firstClickHandled THEN 2 ELSE 0
               /\ added >= 0 /\ added <= hist'.pushed
               /\ dt < 600 => added = hist'.pushed
               /\ \A j \in Indices(particles') :
                    j > Cardinality(Surviving(dt)) => particles'[j].life = dt
       ELSE particles' = particles]_vars

\* two frames with the Missile active have each added two Particles
C29_Witness ==
  /\ firstClickHandled
  /\ hist.pushed = 2
  /\ Len(particles) = 4
  /\ \E i, j \in Indices(particles) :
       particles[i].maxLife # particles[j].maxLife

\* C30: in a frame in which the Missile's position equals the pointer
\* position, the heading drawMissile uses is that of the latest frame whose
\* homing vector was not zero.
C30_ZeroVectorKeepsHeading ==
  [][(/\ FrameStep
      /\ hist'.pushed = 2
      /\ hist'.dir = [x |-> 0, y |-> 0]
      /\ hist.validAngle # [x |-> 0, y |-> 0])
     => hist'.angle = hist.validAngle]_vars

\* C31: scorePulse (in units of 1 / PulseMs) stays within [0, 1]; a frame
\* with a Flyer hit leaves it at exactly 1, any other frame lowers it by
\* dt / 400 down to 0 at the lowest, and no other step changes it.
C31_ScorePulseInUnitRange ==
  /\ [](0 <= scorePulse /\ scorePulse <= PulseMs)
  /\ [][IF FrameStep
          THEN LET dt == IF frames = 0 THEN 0 ELSE now - lastTime
               IN scorePulse' = IF score' > score
                                  THEN PulseMs
                                  ELSE Max(0, scorePulse - dt)
          ELSE scorePulse' = scorePulse]_vars

\* the pulse of a Flyer hit has decayed part of the way
C31_Witness ==
  /\ score > 0
  /\ scorePulse > 0 /\ scorePulse < PulseMs
  /\ lastTime > hist.bomberKilledAt

\* C32: the Debris set is empty before the crash sequence has been triggered
\* and non-empty after it, and while the session is Crashing no step removes
\* a Debris object.
C32_DebrisKept ==
  /\ [](hist.quakes = 0 => buildings = << >>)
  /\ [](hist.quakes > 0 => buildings # << >>)
  /\ [][quakeActive =>
          \A i \in Indices(buildings) :
            \E j \in Indices(buildings') :
              buildings'[j].id = buildings[i].id]_vars

\* C33: without further input and with frames that keep running, the live
\* Explosion set becomes empty and stays empty, and the score stops changing
\* (no frame destroys the Flyer any more), unless the page reloads.
C33_QuiescentWithoutInput ==
  <>[](\/ reloaded
       \/ explosions = << >> /\ hist.bomberKilledAt # lastTime)


\* C34: a respawn timer that fires while the Flyer is alive leaves the Flyer
\* where it is: a live Flyer is never moved back to its spawn point.
C34_LiveFlyerNotRespawned ==
  [][(/\ \E u \in timers : u.kind = "respawn" /\ timers' = timers \ {u}
      /\ frames' = frames
      /\ bomber.alive)
       => bomber' = bomber]_vars


\* C35: the score rises by at most 1 in a single step, however many
\* Explosions overlap the Flyer in that step.
C35_ScoreAtMostOnePerStep == [][score' <= score + 1]_vars

\* a frame has just destroyed the Flyer with the first of two Explosions that
\* were created at the same point at the same time; the second is unflagged
C35_Witness ==
  /\ hist.bomberKilledAt = lastTime
  /\ frames > 0
  /\ \E i, j \in 1..Len(explosions) :
       /\ i < j
       /\ explosions[i].hitBomber /\ ~explosions[j].hitBomber
       /\ explosions[i].src = "click" /\ explosions[j].src = "click"
       /\ explosions[i].x = explosions[j].x
       /\ explosions[i].y = explosions[j].y
       /\ explosions[i].createdAt = explosions[j].createdAt
       /\ Len(hist.scored) > 0
       /\ hist.scored[Len(hist.scored)] = explosions[i].id


\* C36: the secondary blast created by a collision pass is not hit-tested
\* against the Runner or the Flyer in that pass: no circleHit call of a frame
\* is for an Explosion that the same frame's Flyer hit has created.
C36_SecondaryNotTestedInSamePass ==
  \A u \in hist.tests : ~(u.src = "secondary" /\ u.elapsed = 0)


\* C37: Explosions exist only after the first activation: whenever there is
\* an Explosion, a score above 0 or an active crash, the Missile is active.
C37_ExplosionsOnlyAfterActivation ==
  (explosions # << >> \/ score > 0 \/ quakeActive) => firstClickHandled

\* a click's Explosion and a secondary blast exist, the score is above 0 and
\* the crash is running
C37_Witness ==
  /\ firstClickHandled
  /\ score > 0
  /\ quakeActive
  /\ \E i \in 1..Len(explosions) : explosions[i].src = "secondary"
  /\ \E i \in 1..Len(explosions) : explosions[i].src = "click"

=============================================================================
